---- MODULE Spec2Model ----
(***************************************************************************)
(* Label-provenance resolver of the Gmail recovery assistant.              *)
(*                                                                         *)
(*   src/services/gmailService.ts  getHistoryIdAtTime, listMessages,       *)
(*                                 parseMessage, moveToInbox               *)
(*   src/App.tsx                   toggleSelection, selectAll,             *)
(*                                 handleRecover                           *)
(*                                                                         *)
(* listMessages is an async function: every await is a point where the     *)
(* transport decides the outcome, so the function is modelled as one       *)
(* action per awaited transport call, with pc naming the await the scan    *)
(* is suspended at.                                                        *)
(*                                                                         *)
(* Encodings.                                                              *)
(*   - A history id is a JavaScript string of decimal digits, modelled as  *)
(*     a sequence of digits; BigInt() is the decimal value of that         *)
(*     sequence.  null, undefined and "" are all falsy and all modelled    *)
(*     by the empty sequence <<>>.                                         *)
(*   - An optional object (historyRange, msg.__allIds) is <<>> when        *)
(*     undefined and <<x>> when it is x.                                   *)
(*   - A JavaScript number that results from the interpolation is a record *)
(*     [kind, num, den]: kind "undefined", "NaN", or "time" with the exact *)
(*     rational num/den (the rounding of the double division is not        *)
(*     modelled).                                                          *)
(*   - Time is counted in abstract units of one day where the code counts  *)
(*     seconds; the factor 1000 to milliseconds is kept.                   *)
(***************************************************************************)
EXTENDS Integers, Sequences, FiniteSets, TLC

VARIABLES
  \* ---- listMessages: arguments
  afterDate,          \* afterDate argument: a string of digits, "" when absent
  beforeDate,         \* beforeDate argument: a string of digits, "" when absent
  maxResults,         \* maxResults argument
  \* ---- getHistoryIdAtTime followed on its own
  resolver,           \* what one call met and returned, <<>> before any call
  \* ---- listMessages: locals
  pc,                 \* the await listMessages is suspended at
  startHistoryId,     \* string | null
  endHistoryId,       \* string | null
  targetMessageIds,   \* Set<string>, in insertion order
  historyFoundIds,    \* Set<string>
  actionHistoryMap,   \* Map<string,string>, entries in insertion order
  usedHistory,
  pageToken,          \* history loop: TRUE when the last page carried a nextPageToken
  searchPageToken,    \* fallback loop: TRUE when the last page carried a nextPageToken
  stopScanning,
  idArray,            \* the ids (history path) or {id} stubs (fallback path) to fetch
  chunkI,             \* the chunk loop's i
  inFlight,           \* indices into idArray of the detail requests issued and not settled
  allFoundMessages,   \* fallback search accumulator
  finalMessages,
  result,             \* the ScanResult returned, <<>> before the return
  parsed,             \* the EnrichedMessages parsed from result
  \* ---- the provider, as far as the scan observes it
  logCursor,          \* highest change-log position served by the pagination under way
  pagesServed,        \* pages served by the current pagination loop
  \* ---- history of the scan (observers, never read by the program)
  events,             \* the (position, message) pairs the scanner recorded, in order
  dropped,            \* positions of the records that hit the stop condition
  beyond,             \* position of the first record served beyond the end anchor, "" if none
  histFailed,         \* TRUE once a change-log page request threw
  fallbackRuns,       \* number of times the fallback branch was entered
  failStage,          \* stage whose error listMessages rethrew, "" if none
  thrown,             \* the value listMessages rejected with, <<>> if it did not
  chunksIssued,       \* the ids of every chunk of detail requests issued, in order
  stages,             \* the stages the scan has entered, in order
  \* ---- App.tsx state
  emails,
  appState,
  isLoading,
  recover,            \* locals of a handleRecover awaiting moveToInbox, <<>> if none
  moveCalls,          \* the batchModify parameters of every moveToInbox call, in order
  pendingTimers,      \* setTimeout callbacks of handleRecover not yet run
  selectedLabelId,    \* "" until a label is chosen
  statusMsg,          \* <<text>> or <<text, count>>
  scanning,           \* locals of a startScanning awaiting listMessages, <<>> if none
  \* ---- gmailService.ts: authentication
  tokenClient,        \* TRUE once initTokenClient has run
  tokenRequested,     \* TRUE while a requestAccessToken awaits its response
  gapiToken,          \* the token of window.gapi.client, <<>> when null
  localStorage,       \* the item stored under TOKEN_KEY, <<>> when there is none
  authPromise,        \* the promise of the last handleAuthClick, <<>> before any
  dateNow             \* Date.now(), in units of 5 minutes

scanVars == <<afterDate, beforeDate, maxResults, resolver, pc, startHistoryId, endHistoryId,
              targetMessageIds, historyFoundIds, actionHistoryMap, usedHistory,
              pageToken, searchPageToken, stopScanning, idArray, chunkI, allFoundMessages,
              finalMessages, result, parsed, logCursor, pagesServed, events,
              dropped, beyond, histFailed, fallbackRuns, failStage, thrown, inFlight,
              chunksIssued, stages>>
authVars == <<tokenClient, tokenRequested, gapiToken, localStorage, authPromise, dateNow>>
appVars == <<emails, appState, isLoading, recover, moveCalls, pendingTimers,
             selectedLabelId, statusMsg, scanning, authVars>>
vars == <<scanVars, appVars>>

(***************************************************************************)
(* Bounds                                                                  *)
(***************************************************************************)
MaxLen == 2        \* history-id strings given to parseMessage have 1..MaxLen characters
MaxTime == 2       \* range times given to parseMessage are 0..MaxTime
MaxPos == 3        \* the provider's log positions are 0..MaxPos
MaxPages == 2      \* longest chain of next-page tokens the provider serves
MaxRecs == 2       \* most history records on one change-log page
Now == 10          \* Date.now() / 1000
MaxCalls == 2      \* moveToInbox calls followed in one run of the app
MaxVaried == 3     \* longest chunk whose messages get independent answers
MaxAnyOrder == 5   \* longest chunk whose requests settle in every possible order
MaxClock == 4      \* Date.now() is followed from 0 up to here, in units of 5 minutes
MaxExpiresIn == 3  \* longest lifetime of a granted token, in units of 5 minutes

(***************************************************************************)
(* Program constants                                                       *)
(***************************************************************************)
HistoryLimit == 6      \* 6 * 24 * 3600 seconds, in days
ChunkSize == 20
MaxPageSize == 500
MsPerSec == 1000

labelId == "L"
Labels == {"L", "X"}
MsgIds == {"m1", "m2"}
\* maxResults: below, or at, the number of messages of the mailbox
LimitChoices == {1, 2}
ThreadIds == {"t1", "t2"}

(***************************************************************************)
(* Strings of digits and BigInt                                            *)
(***************************************************************************)
\* the digits of the history-id strings given to parseMessage: enough to
\* write one integer in several ways ("1", "01") and to order several
Digits == {0, 1}

RECURSIVE SeqsUpTo(_, _)
\* all sequences over S of length 0..n
SeqsUpTo(S, n) ==
  IF n = 0 THEN {<<>>}
  ELSE LET shorter == SeqsUpTo(S, n - 1)
       IN shorter \cup {Append(s, x) : s \in {t \in shorter : Len(t) = n - 1}, x \in S}

DigitStrings == SeqsUpTo(Digits, MaxLen) \ {<<>>}

RECURSIVE BigInt(_)
\* BigInt(str) of a string of decimal digits; BigInt("") is 0n
BigInt(str) ==
  IF str = <<>> THEN 0
  ELSE 10 * BigInt(SubSeq(str, 1, Len(str) - 1)) + str[Len(str)]

\* the decimal string the provider sends for position n (n < 100)
ToStr(n) == IF n < 10 THEN <<n>> ELSE <<n \div 10, n % 10>>

HistoryIds == {ToStr(n) : n \in 0..MaxPos}

(***************************************************************************)
(* parseMessage                                                            *)
(***************************************************************************)
Undefined == [kind |-> "undefined", num |-> 0, den |-> 1]
NaN == [kind |-> "NaN", num |-> 0, den |-> 1]
Time(n, d) == [kind |-> "time", num |-> n, den |-> d]

\* a plausible slip: progress is the position itself, not its offset from sId
InterpolateNoOffset(sId, eId, mId, startTime, endTime) ==
  IF mId >= sId /\ mId <= eId
  THEN LET range == eId - sId
           progress == mId
       IN IF range = 0
          THEN NaN
          ELSE Time((startTime * range + progress * (endTime - startTime)) * MsPerSec, range)
  ELSE Undefined

\* a plausible slip: the bracket test forgets the upper end
InterpolateNoUpper(sId, eId, mId, startTime, endTime) ==
  IF mId >= sId
  THEN LET range == eId - sId
           progress == mId - sId
       IN IF range = 0
          THEN NaN
          ELSE IF range > 0
               THEN Time((startTime * range + progress * (endTime - startTime)) * MsPerSec, range)
               ELSE Time(0 - (startTime * range + progress * (endTime - startTime)) * MsPerSec, 0 - range)
  ELSE Undefined

\* gmailService.ts 369-376: the bracket test and the linear interpolation.
\* Number(progress) / Number(range) is 0/0 = NaN when the bracket has no width.
Interpolate(sId, eId, mId, startTime, endTime) ==
  IF mId >= sId /\ mId <= eId
  THEN LET range == eId - sId
           progress == mId - sId
       IN IF range = 0
          THEN NaN
          ELSE Time((startTime * range + progress * (endTime - startTime)) * MsPerSec, range)
  ELSE Undefined

\* gmailService.ts 361-363: the conditions under which parseMessage interpolates
Interpolates(msg, historyRange) ==
  /\ msg.actionHistoryId # <<>>
  /\ historyRange # <<>>
  /\ historyRange[1].startId # historyRange[1].endId

\* gmailService.ts 348-396
parseMessage(msg, historyRange) ==
  LET labelAddedAt ==
        IF Interpolates(msg, historyRange)
        THEN LET r == historyRange[1]
                 v == Interpolate(BigInt(r.startId), BigInt(r.endId),
                                  BigInt(msg.actionHistoryId), r.startTime, r.endTime)
             IN IF v.kind = "undefined" THEN msg.labelAddedAt ELSE v
        ELSE msg.labelAddedAt
  IN [id |-> msg.id,
      threadId |-> msg.threadId,
      allMessageIds |-> IF msg.allIds # <<>> THEN msg.allIds[1] ELSE <<msg.id>>,
      labelAddedAt |-> labelAddedAt,
      selected |-> FALSE,
      labelIds |-> msg.labelIds]

\* a message as the provider's messages.get returns it
RawMessage(id, threadId, labelIds) ==
  [id |-> id, threadId |-> threadId, labelIds |-> labelIds,
   actionHistoryId |-> <<>>, allIds |-> <<>>, labelAddedAt |-> Undefined]

(***************************************************************************)
(* Set<string> and Map<string,string> with JavaScript's insertion order    *)
(***************************************************************************)
Range(seq) == {seq[i] : i \in 1..Len(seq)}

\* Set.prototype.add
SetAdd(set, x) == IF x \in Range(set) THEN set ELSE Append(set, x)

MapHas(map, k) == \E i \in 1..Len(map) : map[i].k = k

\* Map.prototype.get; undefined when the key is absent
MapGet(map, k) ==
  IF MapHas(map, k) THEN map[CHOOSE i \in 1..Len(map) : map[i].k = k].v ELSE <<>>

\* a plausible slip: an existing entry is kept (first occurrence wins)
MapSetKeepFirst(map, k, v) ==
  IF MapHas(map, k) THEN map ELSE Append(map, [k |-> k, v |-> v])

\* Map.prototype.set: an existing key keeps its place and takes the new value
MapSet(map, k, v) ==
  IF MapHas(map, k)
  THEN [i \in 1..Len(map) |-> IF map[i].k = k THEN [k |-> k, v |-> v] ELSE map[i]]
  ELSE Append(map, [k |-> k, v |-> v])

Min(a, b) == IF a < b THEN a ELSE b

Max(a, b) == IF a > b THEN a ELSE b

(***************************************************************************)
(* listMessages: argument handling (gmailService.ts 131-135, 182-184)      *)
(***************************************************************************)
\* parseToTimestamp: absent -> 0, a string of digits -> parseInt.  The
\* 'YYYY/MM/DD' form is not modelled.
parseToTimestamp(dateStr) == IF dateStr = <<>> THEN 0 ELSE BigInt(dateStr)

afterTs == parseToTimestamp(afterDate)
beforeTs == IF parseToTimestamp(beforeDate) # 0 THEN parseToTimestamp(beforeDate) ELSE Now
\* a plausible slip: a start exactly six days back still counts as retained
isWithinHistoryLimitInclusive == afterTs >= Now - HistoryLimit

\* 184: afterTs > (Date.now() / 1000) - (6 * 24 * 3600)
isWithinHistoryLimit == afterTs > Now - HistoryLimit

(***************************************************************************)
(* getHistoryIdAtTime (gmailService.ts 137-166)                            *)
(*   search:           outcome of messages.list  "fail" | "none" | "found" *)
(*   ok:               whether the following messages.get or getProfile    *)
(*                     succeeded                                           *)
(*   msgHistoryId:     the historyId of the message found                  *)
(*   profileHistoryId: the historyId of the profile                        *)
(***************************************************************************)
\* a plausible slip: without a message the resolver gives up
getHistoryIdAtTimeNoProfile(search, ok, msgHistoryId, profileHistoryId) ==
  IF search = "found" /\ ok THEN msgHistoryId ELSE <<>>

getHistoryIdAtTime(search, ok, msgHistoryId, profileHistoryId) ==
  IF search = "fail" THEN <<>>
  ELSE IF search = "found"
       THEN IF ok THEN msgHistoryId ELSE <<>>
       ELSE IF ok THEN profileHistoryId ELSE <<>>

(***************************************************************************)
(* The change-log pages the provider can serve                             *)
(***************************************************************************)
LabelAdd(m, ls) == [message |-> m, labelIds |-> ls]

LabelsAddedChoices ==
  {<<>>, <<LabelAdd("m1", {"L"})>>, <<LabelAdd("m2", {"L"})>>,
   <<LabelAdd("m1", {"X"})>>, <<LabelAdd("m1", {"L", "X"}), LabelAdd("m2", {"L"})>>}

Records == [id : HistoryIds, labelsAdded : LabelsAddedChoices]

RECURSIVE RecordSeqs(_, _)
\* pages of at most n records at strictly increasing positions above cursor
RecordSeqs(cursor, n) ==
  IF n = 0 THEN {<<>>}
  ELSE {<<>>} \cup
       UNION {{<<r>> \o rest : rest \in RecordSeqs(BigInt(r.id), n - 1)} :
                r \in {q \in Records : BigInt(q.id) > cursor}}

(***************************************************************************)
(* listMessages: the history pagination loop body (gmailService.ts 211-233)*)
(***************************************************************************)
\* 215-218: endId is null without an end anchor, and 0n is falsy
StopCondition(recordId, endHistory) ==
  LET currentId == BigInt(recordId)
      hasEnd == endHistory # <<>>
      endId == BigInt(endHistory)
  IN hasEnd /\ endId # 0 /\ currentId > endId

\* 225: la.labelIds.includes(labelId)
Qualifies(la) == labelId \in la.labelIds

RECURSIVE ProcessLabelsAdded(_, _, _)
\* 223-231: record.labelsAdded.forEach.  events is the observer's own note of
\* the processed entries that add the target label.
ProcessLabelsAdded(las, recordId, st) ==
  IF las = <<>> THEN st
  ELSE LET la == Head(las)
           kept == IF Qualifies(la)
                   THEN [st EXCEPT
                           !.target = SetAdd(st.target, la.message),
                           !.found = st.found \cup {la.message},
                           !.map = MapSet(st.map, la.message, recordId)]
                   ELSE st
           next == IF labelId \in la.labelIds
                   THEN [kept EXCEPT
                           !.events = Append(@, [pos |-> recordId, msg |-> la.message])]
                   ELSE kept
       IN ProcessLabelsAdded(Tail(las), recordId, next)

\* the first record of recs whose position exceeds the end anchor's, "" if none
FirstBeyond(recs, endHistory) ==
  LET Exceeds(r) == endHistory # <<>> /\ BigInt(r.id) > BigInt(endHistory)
      over == SelectSeq(recs, Exceeds)
  IN IF over = <<>> THEN <<>> ELSE over[1].id

RECURSIVE ProcessRecords(_, _)
\* 213-232: for (const record of historyRecords), with its break
ProcessRecords(recs, st) ==
  IF recs = <<>> THEN st
  ELSE LET record == Head(recs)
       IN IF StopCondition(record.id, endHistoryId)
          THEN [st EXCEPT !.stop = TRUE, !.dropped = Append(st.dropped, record.id)]
          ELSE ProcessRecords(Tail(recs), ProcessLabelsAdded(record.labelsAdded, record.id, st))

(***************************************************************************)
(* listMessages: thread grouping and the returned ScanResult (309-341)     *)
(***************************************************************************)
\* a plausible slip: the id is pushed only when the group is created
GroupByThreadFirstOnly(msgs) ==
  LET IsFirst(i) == \A j \in 1..(i - 1) : msgs[j].threadId # msgs[i].threadId
      firsts == SelectSeq([i \in 1..Len(msgs) |-> i], IsFirst)
  IN [g \in 1..Len(firsts) |->
        [tId |-> msgs[firsts[g]].threadId,
         representative |-> msgs[firsts[g]],
         allIds |-> <<msgs[firsts[g]].id>>]]

\* a plausible slip: every message of a thread replaces the representative
GroupByThreadLastWins(msgs) ==
  LET IsFirst(i) == \A j \in 1..(i - 1) : msgs[j].threadId # msgs[i].threadId
      firsts == SelectSeq([i \in 1..Len(msgs) |-> i], IsFirst)
  IN [g \in 1..Len(firsts) |->
        LET InThread(m) == m.threadId = msgs[firsts[g]].threadId
            members == SelectSeq(msgs, InThread)
        IN [tId |-> msgs[firsts[g]].threadId,
            representative |-> members[Len(members)],
            allIds |-> [j \in 1..Len(members) |-> members[j].id]]]

\* a plausible slip: the message that opens a group is not pushed to its allIds
GroupByThreadOthersOnly(msgs) ==
  LET IsFirst(i) == \A j \in 1..(i - 1) : msgs[j].threadId # msgs[i].threadId
      firsts == SelectSeq([i \in 1..Len(msgs) |-> i], IsFirst)
  IN [g \in 1..Len(firsts) |->
        LET InThread(m) == m.threadId = msgs[firsts[g]].threadId
            members == SelectSeq(msgs, InThread)
        IN [tId |-> msgs[firsts[g]].threadId,
            representative |-> msgs[firsts[g]],
            allIds |-> [j \in 1..(Len(members) - 1) |-> members[j + 1].id]]]

\* 312-319: threadGroups, a Map keyed by threadId in first-seen order.  The
\* forEach leaves, for every thread, the first message met as representative
\* and the ids of the thread's messages, in the order met, as allIds.
GroupByThread(msgs) ==
  LET IsFirst(i) == \A j \in 1..(i - 1) : msgs[j].threadId # msgs[i].threadId
      firsts == SelectSeq([i \in 1..Len(msgs) |-> i], IsFirst)
  IN [g \in 1..Len(firsts) |->
        LET InThread(m) == m.threadId = msgs[firsts[g]].threadId
            members == SelectSeq(msgs, InThread)
        IN [tId |-> msgs[firsts[g]].threadId,
            representative |-> msgs[firsts[g]],
            allIds |-> [j \in 1..Len(members) |-> members[j].id]]]

\* a plausible slip: the commented-out lines 327-329 are live
EnrichMarking(t) ==
  [t.representative EXCEPT
     !.allIds = <<t.allIds>>,
     !.labelAddedAt = IF t.representative.id \in historyFoundIds
                      THEN Time(Now * MsPerSec, 1) ELSE @]

\* 323-331: msg.__allIds = t.allIds (327-329 are commented out)
Enrich(t) == [t.representative EXCEPT !.allIds = <<t.allIds>>]

\* 311-331
Dedupe(msgs) ==
  LET uniqueThreads == GroupByThread(msgs)
  IN [i \in 1..Len(uniqueThreads) |-> Enrich(uniqueThreads[i])]

\* a plausible slip: the two ends of the window change places
ReturnValueTimesSwapped(fm, uh, sId, eId, map) ==
  IF Len(fm) = 0
  THEN [messages |-> <<>>, historyRange |-> <<>>]
  ELSE [messages |-> Dedupe(fm),
        historyRange |->
          IF uh /\ sId # <<>>
          THEN <<[startId |-> sId,
                  endId |-> IF eId # <<>> THEN eId
                            ELSE IF Len(map) > 0 /\ map[Len(map)].v # <<>>
                                 THEN map[Len(map)].v
                                 ELSE <<0>>,
                  startTime |-> beforeTs,
                  endTime |-> afterTs]>>
          ELSE <<>>]

\* 309 and 333-341: the value listMessages resolves with
ReturnValue(fm, uh, sId, eId, map) ==
  IF Len(fm) = 0
  THEN [messages |-> <<>>, historyRange |-> <<>>]
  ELSE [messages |-> Dedupe(fm),
        historyRange |->
          IF uh /\ sId # <<>>
          THEN <<[startId |-> sId,
                  endId |-> IF eId # <<>> THEN eId
                            ELSE IF Len(map) > 0 /\ map[Len(map)].v # <<>>
                                 THEN map[Len(map)].v
                                 ELSE <<0>>,
                  startTime |-> afterTs,
                  endTime |-> beforeTs]>>
          ELSE <<>>]

\* the scan enters the stages names, in this order
Enter(names) == stages' = stages \o names

Finish(fm, uh, sId, eId, map) ==
  /\ result' = <<ReturnValue(fm, uh, sId, eId, map)>>
  /\ pc' = "done"
  /\ Enter(IF Len(fm) = 0 THEN <<"DONE">> ELSE <<"DEDUPLICATING", "DONE">>)

(***************************************************************************)
(* listMessages: choice between the two scenarios (245-280)                *)
(***************************************************************************)
\* a plausible slip: the emptiness of the event set is not looked at
UseHistoryResultsAlways(uh, tgt) == uh

\* 247: usedHistory && targetMessageIds.size > 0
UseHistoryResults(uh, tgt) == uh /\ Len(tgt) > 0

\* a plausible slip: slice(i, i + chunkSize - 1)
ChunkOfShort(ids, i) == SubSeq(ids, i + 1, Min(i + ChunkSize - 1, Len(ids)))

\* 252, 295: ids.slice(i, i + chunkSize)
ChunkOf(ids, i) == SubSeq(ids, i + 1, Min(i + ChunkSize, Len(ids)))

\* 253-260, 296-303: chunk.map issues one messages.get per id of the chunk
IssueChunk(ids, i) ==
  /\ inFlight' = inFlight \cup (i + 1 .. i + Len(ChunkOf(ids, i)))
  /\ chunksIssued' = Append(chunksIssued, ChunkOf(ids, i))

fetchVars == <<inFlight, chunksIssued>>

\* runs from line 245 to the first await of the chosen scenario
EnterPath(uh, tgt, map, sId, eId) ==
  IF UseHistoryResults(uh, tgt)
  THEN /\ idArray' = SubSeq(tgt, 1, Min(Len(tgt), maxResults))
       /\ chunkI' = 0
       /\ pagesServed' = 0
       /\ UNCHANGED <<allFoundMessages, searchPageToken, fallbackRuns>>
       /\ IF Len(idArray') = 0
          THEN Finish(<<>>, uh, sId, eId, map) /\ UNCHANGED fetchVars
          ELSE /\ pc' = "fetchHistory"
               /\ IssueChunk(idArray', 0)
               /\ Enter(<<"FETCHING_DETAILS">>)
               /\ UNCHANGED result
  ELSE /\ fallbackRuns' = fallbackRuns + 1
       /\ Enter(<<"FALLBACK_SEARCHING">>)
       /\ allFoundMessages' = <<>>
       /\ searchPageToken' = FALSE
       /\ pagesServed' = 0
       /\ pc' = "fallbackSearch"
       /\ UNCHANGED <<idArray, chunkI, result, fetchVars>>

pathVars == <<idArray, chunkI, allFoundMessages, searchPageToken, fallbackRuns, result,
              inFlight, chunksIssued>>
histVars == <<targetMessageIds, historyFoundIds, actionHistoryMap, stopScanning,
              pageToken, logCursor, events, dropped, beyond>>
argVars == <<afterDate, beforeDate, maxResults, resolver>>

(***************************************************************************)
(* listMessages, one action per await                                      *)
(***************************************************************************)
AnchorSearch == {"fail", "none", "found"}

\* 180-195: the call, up to the first await
listMessages_call ==
  /\ pc = "start"
  /\ IF isWithinHistoryLimit /\ afterTs > 0
     THEN pc' = "anchorStart" /\ Enter(<<"ANCHORING">>) /\ UNCHANGED <<pathVars, pagesServed>>
     ELSE EnterPath(usedHistory, targetMessageIds, actionHistoryMap,
                    startHistoryId, endHistoryId)
  /\ UNCHANGED <<argVars, histVars, startHistoryId, endHistoryId, usedHistory,
                 finalMessages, parsed, histFailed, failStage, thrown, appVars>>

\* 195: startHistoryId = await getHistoryIdAtTime(afterTs, true)
listMessages_startAnchor ==
  /\ pc = "anchorStart"
  /\ \E search \in AnchorSearch, ok \in BOOLEAN, hid \in HistoryIds, cur \in HistoryIds :
       startHistoryId' = getHistoryIdAtTime(search, ok, hid, cur)
  /\ pc' = "anchorEnd"
  /\ UNCHANGED <<argVars, histVars, pathVars, pagesServed, endHistoryId, usedHistory, stages,
                 finalMessages, parsed, histFailed, failStage, thrown, appVars>>

\* 196-204: endHistoryId = await getHistoryIdAtTime(beforeTs, false), then
\* the first change-log request or, without a start anchor, line 245
listMessages_endAnchor ==
  /\ pc = "anchorEnd"
  /\ \E search \in AnchorSearch, ok \in BOOLEAN, hid \in HistoryIds, cur \in HistoryIds :
       endHistoryId' = getHistoryIdAtTime(search, ok, hid, cur)
  /\ IF startHistoryId # <<>>
     THEN pc' = "historyPage" /\ Enter(<<"SCANNING">>) /\ UNCHANGED <<pathVars, pagesServed>>
     ELSE EnterPath(usedHistory, targetMessageIds, actionHistoryMap,
                    startHistoryId, endHistoryId')
  /\ UNCHANGED <<argVars, histVars, startHistoryId, usedHistory,
                 finalMessages, parsed, histFailed, failStage, thrown, appVars>>

\* a plausible slip: the catch leaves the scan marked as usable
CatchKeepsUsedHistory == TRUE

\* 240: usedHistory = false in the catch of the history scan
CatchUsedHistory == FALSE

\* 204-237: a change-log page arrives; history.list serves the records after
\* startHistoryId, in the order of their positions
listMessages_historyPage ==
  /\ pc = "historyPage"
  /\ \E recs \in RecordSeqs(Max(logCursor, BigInt(startHistoryId)), MaxRecs),
        tok \in BOOLEAN :
       /\ tok => pagesServed + 1 < MaxPages
       /\ LET st == ProcessRecords(recs,
                      [target |-> targetMessageIds, found |-> historyFoundIds,
                       map |-> actionHistoryMap, stop |-> stopScanning,
                       events |-> events, dropped |-> dropped])
          IN /\ targetMessageIds' = st.target
             /\ historyFoundIds' = st.found
             /\ actionHistoryMap' = st.map
             /\ stopScanning' = st.stop
             /\ events' = st.events
             /\ dropped' = st.dropped
             /\ beyond' = IF beyond # <<>> THEN beyond ELSE FirstBeyond(recs, endHistoryId)
             /\ pageToken' = tok
             /\ IF tok /\ ~st.stop
                THEN /\ pc' = "historyPage"
                     /\ pagesServed' = pagesServed + 1
                     /\ logCursor' = IF recs = <<>> THEN logCursor
                                      ELSE BigInt(recs[Len(recs)].id)
                     /\ UNCHANGED <<usedHistory, pathVars, stages>>
                ELSE /\ usedHistory' = TRUE
                     /\ logCursor' = -1
                     /\ EnterPath(TRUE, st.target, st.map, startHistoryId, endHistoryId)
  /\ UNCHANGED <<argVars, startHistoryId, endHistoryId, finalMessages, parsed,
                 histFailed, failStage, thrown, appVars>>

\* 238-241: a change-log page request throws
listMessages_historyError ==
  /\ pc = "historyPage"
  /\ histFailed' = TRUE
  /\ usedHistory' = CatchUsedHistory
  /\ EnterPath(usedHistory', targetMessageIds, actionHistoryMap,
               startHistoryId, endHistoryId)
  /\ logCursor' = -1
  /\ UNCHANGED <<argVars, targetMessageIds, historyFoundIds, actionHistoryMap,
                 stopScanning, pageToken, events, dropped, beyond,
                 startHistoryId, endHistoryId, finalMessages,
                 parsed, failStage, thrown, appVars>>

\* what messages.get can answer for one id
Details == [threadId : ThreadIds, labelIds : {{"L"}, {"X"}}]

\* the answers to the requests of a chunk of n ids; a chunk longer than
\* MaxVaried is answered alike for all its messages
DetailAnswers(n) ==
  IF n <= MaxVaried THEN [1..n -> Details]
  ELSE {[j \in 1..n |-> d] : d \in Details}

Chunk == ChunkOf(idArray, chunkI)

\* the request that settles next: any of a chunk of at most MaxAnyOrder
\* requests, the first or the last still in flight of a longer chunk
SettleChoices ==
  IF Len(Chunk) <= MaxAnyOrder THEN inFlight
  ELSE {i \in inFlight : (\A j \in inFlight : i <= j) \/ (\A j \in inFlight : i >= j)}

\* a plausible slip: the loop waits for chunkSize results, which a shorter last
\* chunk never gives
AllSettledFullChunk == inFlight = {} /\ Len(Chunk) = ChunkSize

\* a plausible slip: Promise.race, the first request to settle resumes the loop
FirstSettled == inFlight # chunkI + 1 .. chunkI + Len(Chunk)

\* 262, 304: await Promise.all resumes once every request of the chunk is fulfilled
AllSettled == inFlight = {}

\* a plausible slip: the label is not looked for in the fetched metadata
HistoryResultsKeepAll(msgs) ==
  [j \in 1..Len(msgs) |->
     [msgs[j] EXCEPT !.actionHistoryId = MapGet(actionHistoryMap, msgs[j].id)]]

\* 263-270: keep the messages that still bear the label, with their event position
HistoryResults(msgs) ==
  LET Bears(m) == labelId \in m.labelIds
      kept == SelectSeq(msgs, Bears)
  IN [j \in 1..Len(kept) |->
        [kept[j] EXCEPT !.actionHistoryId = MapGet(actionHistoryMap, kept[j].id)]]

\* 305: details.forEach(res => finalMessages.push(res.result))
FallbackResults(msgs) == msgs

\* 262-271 and 304-306: Promise.all of the chunk resolves, the results are
\* taken and the loop goes on to the next chunk or leaves
FetchChunk(stage) ==
  /\ AllSettled
  /\ \E d \in DetailAnswers(Len(Chunk)) :
       LET msgs == [j \in 1..Len(Chunk) |->
                      RawMessage(Chunk[j], d[j].threadId, d[j].labelIds)]
           fm == finalMessages \o (IF stage = "fetchHistory"
                                    THEN HistoryResults(msgs)
                                    ELSE FallbackResults(msgs))
       IN /\ finalMessages' = fm
          /\ chunkI' = chunkI + ChunkSize
          /\ IF chunkI' < Len(idArray)
             THEN pc' = stage /\ IssueChunk(idArray, chunkI') /\ UNCHANGED <<result, stages>>
             ELSE /\ Finish(fm, usedHistory, startHistoryId, endHistoryId, actionHistoryMap)
                  /\ UNCHANGED fetchVars
  /\ UNCHANGED <<argVars, histVars, startHistoryId, endHistoryId, usedHistory,
                 idArray, allFoundMessages, searchPageToken, fallbackRuns,
                 pagesServed, parsed, histFailed, failStage, thrown, appVars>>

\* what a transport call rejects with: the provider's error, as the client
\* library hands it over
TransportError == [message |-> "Request failed", status |-> 500]

\* a plausible slip: the outer catch falls back to the search, as the inner one does
RethrowFallsBack(stage) ==
  /\ pc' = "fallbackSearch"
  /\ failStage' = stage
  /\ thrown' = thrown
  /\ Enter(<<"FALLBACK_SEARCHING">>)
  /\ UNCHANGED <<argVars, histVars, idArray, chunkI, allFoundMessages,
                 searchPageToken, fallbackRuns, result, chunksIssued, pagesServed,
                 startHistoryId, endHistoryId, usedHistory, finalMessages, parsed,
                 histFailed, appVars>>

\* a plausible slip: the catch returns what was fetched so far
RethrowReturnsPartial(stage) ==
  /\ pc' = "done"
  /\ failStage' = stage
  /\ thrown' = thrown
  /\ Enter(<<"DONE">>)
  /\ result' = <<ReturnValue(finalMessages, usedHistory, startHistoryId,
                             endHistoryId, actionHistoryMap)>>
  /\ UNCHANGED <<argVars, histVars, idArray, chunkI, allFoundMessages,
                 searchPageToken, fallbackRuns, chunksIssued, pagesServed,
                 startHistoryId, endHistoryId, usedHistory, finalMessages, parsed,
                 histFailed, appVars>>

\* 342-345: the outer catch rethrows
Rethrow(stage) ==
  /\ pc' = "failed"
  /\ failStage' = stage
  /\ thrown' = <<TransportError>>
  /\ Enter(<<"FAILED">>)
  /\ UNCHANGED <<argVars, histVars, idArray, chunkI, allFoundMessages,
                 searchPageToken, fallbackRuns, result, chunksIssued, pagesServed,
                 startHistoryId, endHistoryId, usedHistory, finalMessages, parsed,
                 histFailed, appVars>>

\* 251-271: Promise.all of a chunk of the history path resolves
listMessages_historyChunk ==
  /\ pc = "fetchHistory"
  /\ FetchChunk("fetchHistory")

\* 294-306: Promise.all of a chunk of the fallback path resolves
listMessages_fallbackChunk ==
  /\ pc = "fetchFallback"
  /\ FetchChunk("fetchFallback")

\* 262, 304: one request of the chunk rejects, Promise.all rejects with it
\* while the other requests of the chunk may still be in flight
listMessages_chunkError ==
  /\ pc \in {"fetchHistory", "fetchFallback"}
  /\ \E i \in SettleChoices : inFlight' = inFlight \ {i}
  /\ Rethrow("fetchDetails")

\* 253-260, 296-303: one detail request settles; nothing reads its outcome
\* before Promise.all resumes the loop
detailSettles ==
  /\ \E i \in SettleChoices : inFlight' = inFlight \ {i}
  /\ UNCHANGED <<argVars, histVars, idArray, chunkI, allFoundMessages,
                 searchPageToken, fallbackRuns, result, chunksIssued, pagesServed,
                 startHistoryId, endHistoryId, usedHistory, finalMessages, parsed,
                 histFailed, failStage, thrown, pc, stages, appVars>>

RECURSIVE DistinctSeqs(_, _)
\* sequences without repetition over S, of length 0..n
DistinctSeqs(S, n) ==
  IF n <= 0 \/ S = {} THEN {<<>>}
  ELSE {<<>>} \cup UNION {{<<x>> \o rest : rest \in DistinctSeqs(S \ {x}, n - 1)} : x \in S}

\* a plausible slip: what is accumulated already is not taken off the limit
SearchPageSizeFull == Min(MaxPageSize, maxResults)

\* 284: maxResults: Math.min(500, maxResults - allFoundMessages.length)
SearchPageSize == Min(MaxPageSize, maxResults - Len(allFoundMessages))

\* 280-306: the page of the fallback search arrives, with or without a
\* next-page token
SearchPageArrives(page, tok) ==
  /\ tok => pagesServed + 1 < MaxPages
  /\ allFoundMessages' = allFoundMessages \o page
  /\ searchPageToken' = tok
  /\ IF tok /\ Len(allFoundMessages') < maxResults
     THEN /\ pc' = "fallbackSearch"
          /\ pagesServed' = pagesServed + 1
          /\ UNCHANGED <<idArray, chunkI, result, fetchVars, stages>>
     ELSE /\ idArray' = allFoundMessages'
          /\ chunkI' = 0
          /\ pagesServed' = 0
          /\ IF Len(idArray') = 0
             THEN /\ Finish(finalMessages, usedHistory, startHistoryId,
                            endHistoryId, actionHistoryMap)
                  /\ UNCHANGED fetchVars
             ELSE /\ pc' = "fetchFallback"
                  /\ IssueChunk(idArray', 0)
                  /\ Enter(<<"FETCHING_DETAILS">>)
                  /\ UNCHANGED result
  /\ UNCHANGED <<argVars, histVars, startHistoryId, endHistoryId, usedHistory,
                 fallbackRuns, finalMessages, parsed, histFailed, failStage, thrown,
                 appVars>>

\* 280-290: a page of the fallback search; the provider lists a message once
\* and honours the requested page size
listMessages_searchPage ==
  /\ pc = "fallbackSearch"
  /\ \E page \in DistinctSeqs(MsgIds \ Range(allFoundMessages), SearchPageSize),
        tok \in BOOLEAN :
       SearchPageArrives(page, tok)

\* 280: a fallback search request throws
listMessages_searchError ==
  /\ pc = "fallbackSearch"
  /\ Rethrow("fallbackSearch")
  /\ UNCHANGED inFlight

\* the caller parses every returned message against the returned range
ParseResults ==
  /\ pc = "done"
  /\ parsed' = [i \in 1..Len(result[1].messages) |->
                  parseMessage(result[1].messages[i], result[1].historyRange)]
  /\ pc' = "parsed"
  /\ Enter(IF \E i \in 1..Len(result[1].messages) :
                Interpolates(result[1].messages[i], result[1].historyRange)
           THEN <<"INTERPOLATING">> ELSE <<>>)
  /\ UNCHANGED <<argVars, histVars, pathVars, pagesServed, startHistoryId,
                 endHistoryId, usedHistory, finalMessages, histFailed, failStage, thrown,
                 appVars>>

(***************************************************************************)
(* One scan                                                                *)
(***************************************************************************)
HistoryInit ==
  /\ startHistoryId = <<>>
  /\ endHistoryId = <<>>
  /\ targetMessageIds = <<>>
  /\ historyFoundIds = {}
  /\ actionHistoryMap = <<>>
  /\ usedHistory = FALSE
  /\ pageToken = FALSE
  /\ stopScanning = FALSE
  /\ logCursor = -1
  /\ events = <<>>
  /\ dropped = <<>>
  /\ beyond = <<>>
  /\ histFailed = FALSE

SearchInit ==
  /\ searchPageToken = FALSE
  /\ allFoundMessages = <<>>
  /\ pagesServed = 0
  /\ fallbackRuns = 0

FetchInit ==
  /\ idArray = <<>>
  /\ chunkI = 0
  /\ inFlight = {}
  /\ chunksIssued = <<>>
  /\ finalMessages = <<>>
  /\ failStage = ""
  /\ thrown = <<>>

ScanLocalsInit ==
  /\ HistoryInit
  /\ SearchInit
  /\ FetchInit
  /\ result = <<>>
  /\ parsed = <<>>
  /\ stages = <<>>

\* gmailService.ts 12-16: nothing initialised, nothing stored
AuthIdle ==
  /\ tokenClient = FALSE
  /\ tokenRequested = FALSE
  /\ gapiToken = <<>>
  /\ localStorage = <<>>
  /\ authPromise = <<>>
  /\ dateNow = 0

AppIdle ==
  /\ emails = <<>>
  /\ appState = "SELECT_LABEL"
  /\ isLoading = FALSE
  /\ recover = <<>>
  /\ moveCalls = <<>>
  /\ pendingTimers = 0
  /\ selectedLabelId = ""
  /\ statusMsg = <<"Ready to connect">>
  /\ scanning = <<>>
  /\ AuthIdle

AfterDates == {<<>>, ToStr(Now - HistoryLimit), ToStr(Now - 2)}
BeforeDates == {<<>>, ToStr(Now - 1)}

Init ==
  /\ afterDate \in AfterDates
  /\ beforeDate \in BeforeDates
  /\ maxResults \in LimitChoices
  /\ resolver = <<>>
  /\ pc = "start"
  /\ ScanLocalsInit
  /\ AppIdle

Next ==
  \/ listMessages_call
  \/ listMessages_startAnchor
  \/ listMessages_endAnchor
  \/ listMessages_historyPage
  \/ listMessages_historyError
  \/ listMessages_historyChunk
  \/ listMessages_fallbackChunk
  \/ listMessages_chunkError
  \/ detailSettles
  \/ listMessages_searchPage
  \/ listMessages_searchError
  \/ ParseResults

Spec == Init /\ [][Next]_vars

(***************************************************************************)
(* getHistoryIdAtTime on its own: any outcome of its transport calls       *)
(***************************************************************************)
\* 137-166: one call of the resolver, from the search to the return
getHistoryIdAtTime_call ==
  /\ \E isStart \in BOOLEAN, search \in AnchorSearch, ok \in BOOLEAN,
        hid \in HistoryIds, cur \in HistoryIds :
       resolver' = <<[isStart |-> isStart,
                      timestamp |-> IF isStart THEN afterTs ELSE beforeTs,
                      search |-> search, ok |-> ok,
                      msgHistoryId |-> hid, profileHistoryId |-> cur,
                      out |-> getHistoryIdAtTime(search, ok, hid, cur)]>>
  /\ UNCHANGED <<afterDate, beforeDate, maxResults, pc, histVars, pathVars, pagesServed,
                 startHistoryId, endHistoryId, usedHistory, finalMessages, parsed,
                 histFailed, failStage, thrown, stages, appVars>>

InitAnchor ==
  /\ afterDate = ToStr(Now - 2)
  /\ beforeDate \in BeforeDates
  /\ maxResults = MaxPageSize
  /\ resolver = <<>>
  /\ pc = "anchorStart"
  /\ ScanLocalsInit
  /\ AppIdle

NextAnchor == getHistoryIdAtTime_call

SpecAnchor == InitAnchor /\ [][NextAnchor]_vars

(***************************************************************************)
(* parseMessage on its own: any pair of messages against any range         *)
(***************************************************************************)
EventPositions == DigitStrings \cup {<<>>}

HistoryRanges ==
  {<<>>} \cup {<<r>> : r \in [startId : DigitStrings, endId : DigitStrings,
                              startTime : 0..MaxTime, endTime : 0..MaxTime]}

InitParse ==
  /\ afterDate = <<>>
  /\ beforeDate = <<>>
  /\ maxResults = MaxPageSize
  /\ resolver = <<>>
  /\ HistoryInit
  /\ SearchInit
  /\ FetchInit
  /\ \E p1 \in EventPositions, p2 \in EventPositions, hr \in HistoryRanges :
       result = <<[messages |->
                     <<[RawMessage("m1", "t1", {"L"}) EXCEPT !.actionHistoryId = p1],
                       [RawMessage("m2", "t2", {"L"}) EXCEPT !.actionHistoryId = p2]>>,
                   historyRange |-> hr]>>
  /\ parsed = <<>>
  /\ pc = "done"
  /\ stages = <<"DONE">>
  /\ AppIdle

NextParse == ParseResults

SpecParse == InitParse /\ [][NextParse]_vars

(***************************************************************************)
(* The detail fetch and the thread grouping on their own: any list of      *)
(* located messages with distinct ids                                      *)
(***************************************************************************)
DedupeIds == {"m1", "m2", "m3"}

InitDedupe ==
  /\ afterDate = <<>>
  /\ beforeDate = <<>>
  /\ maxResults = MaxPageSize
  /\ resolver = <<>>
  /\ HistoryInit
  /\ idArray \in DistinctSeqs(DedupeIds, Cardinality(DedupeIds)) \ {<<>>}
  /\ allFoundMessages = idArray
  /\ searchPageToken = FALSE
  /\ pagesServed = 0
  /\ fallbackRuns = 1
  /\ chunkI = 0
  /\ inFlight = 1..Len(idArray)
  /\ chunksIssued = <<idArray>>
  /\ finalMessages = <<>>
  /\ failStage = ""
  /\ thrown = <<>>
  /\ result = <<>>
  /\ parsed = <<>>
  /\ pc = "fetchFallback"
  /\ stages = <<"FALLBACK_SEARCHING", "FETCHING_DETAILS">>
  /\ AppIdle

NextDedupe ==
  \/ detailSettles
  \/ listMessages_fallbackChunk
  \/ ParseResults

SpecDedupe == InitDedupe /\ [][NextDedupe]_vars

(***************************************************************************)
(* The detail fetch on its own, request by request: a scan that located n  *)
(* messages, through the change log or through the fallback search         *)
(***************************************************************************)
\* numbers of located messages around the multiples of the chunk size
FetchSizes == {1, 20, 21, 40, 45}

FetchIds(n) == [i \in 1..n |-> ToString(i)]

\* 248: the change log had one record, at position 1, adding the label to ids
InitFetchHistory(ids) ==
  /\ afterDate = ToStr(Now - 2)
  /\ startHistoryId = ToStr(0)
  /\ endHistoryId = ToStr(MaxPos)
  /\ targetMessageIds = ids
  /\ historyFoundIds = Range(ids)
  /\ actionHistoryMap = [i \in 1..Len(ids) |-> [k |-> ids[i], v |-> ToStr(1)]]
  /\ events = [i \in 1..Len(ids) |-> [pos |-> ToStr(1), msg |-> ids[i]]]
  /\ usedHistory = TRUE
  /\ logCursor = 1
  /\ allFoundMessages = <<>>
  /\ fallbackRuns = 0
  /\ pc = "fetchHistory"
  /\ stages = <<"ANCHORING", "SCANNING", "FETCHING_DETAILS">>

\* 292: the fallback search returned ids
InitFetchFallback(ids) ==
  /\ afterDate = <<>>
  /\ startHistoryId = <<>>
  /\ endHistoryId = <<>>
  /\ targetMessageIds = <<>>
  /\ historyFoundIds = {}
  /\ actionHistoryMap = <<>>
  /\ events = <<>>
  /\ usedHistory = FALSE
  /\ logCursor = -1
  /\ allFoundMessages = ids
  /\ fallbackRuns = 1
  /\ pc = "fetchFallback"
  /\ stages = <<"FALLBACK_SEARCHING", "FETCHING_DETAILS">>

\* a detail fetch of n located messages, n in sizes, at its first chunk
InitFetchOf(sizes) ==
  /\ beforeDate = <<>>
  /\ maxResults = MaxPageSize
  /\ resolver = <<>>
  /\ \E n \in sizes :
       /\ idArray = FetchIds(n)
       /\ InitFetchHistory(idArray) \/ InitFetchFallback(idArray)
  /\ pageToken = FALSE
  /\ stopScanning = FALSE
  /\ dropped = <<>>
  /\ beyond = <<>>
  /\ histFailed = FALSE
  /\ searchPageToken = FALSE
  /\ pagesServed = 0
  /\ chunkI = 0
  /\ inFlight = 1..Len(ChunkOf(idArray, 0))
  /\ chunksIssued = <<ChunkOf(idArray, 0)>>
  /\ finalMessages = <<>>
  /\ failStage = ""
  /\ thrown = <<>>
  /\ result = <<>>
  /\ parsed = <<>>
  /\ AppIdle

InitFetch == InitFetchOf(FetchSizes)

NextFetch ==
  \/ detailSettles
  \/ listMessages_historyChunk
  \/ listMessages_fallbackChunk
  \/ listMessages_chunkError
  \/ ParseResults

SpecFetch == InitFetch /\ [][NextFetch]_vars

(***************************************************************************)
(* The three loops of listMessages when every transport call settles: a    *)
(* scan at its first change-log request, or at a detail fetch of several   *)
(* chunks, and each await resumed                                          *)
(***************************************************************************)
\* 204: both anchors resolved, the first history.list request is out
InitLiveHistory ==
  /\ afterDate = ToStr(Now - 2)
  /\ beforeDate = <<>>
  /\ maxResults = 2
  /\ resolver = <<>>
  /\ startHistoryId = ToStr(1)
  /\ endHistoryId = ToStr(MaxPos - 1)
  /\ targetMessageIds = <<>>
  /\ historyFoundIds = {}
  /\ actionHistoryMap = <<>>
  /\ usedHistory = FALSE
  /\ pageToken = FALSE
  /\ stopScanning = FALSE
  /\ logCursor = -1
  /\ events = <<>>
  /\ dropped = <<>>
  /\ beyond = <<>>
  /\ histFailed = FALSE
  /\ SearchInit
  /\ FetchInit
  /\ result = <<>>
  /\ parsed = <<>>
  /\ pc = "historyPage"
  /\ stages = <<"ANCHORING", "SCANNING">>
  /\ AppIdle

\* located messages that take two and three turns of the chunk loop
LiveFetchSizes == {ChunkSize + 1, 2 * ChunkSize + 1}

InitLive == InitLiveHistory \/ InitFetchOf(LiveFetchSizes)

NextLive ==
  \/ listMessages_historyPage
  \/ listMessages_historyError
  \/ listMessages_historyChunk
  \/ listMessages_fallbackChunk
  \/ listMessages_chunkError
  \/ detailSettles
  \/ listMessages_searchPage
  \/ listMessages_searchError
  \/ ParseResults

SpecLive == InitLive /\ [][NextLive]_vars /\ WF_vars(NextLive)

(***************************************************************************)
(* The fallback search on its own, over a mailbox of more messages than a  *)
(* page holds                                                              *)
(***************************************************************************)
\* limits around the page size and around twice the page size
SearchLimits == {1, 2, 3, MaxPageSize - 1, MaxPageSize, MaxPageSize + 1,
                 MaxPageSize + 2, 2 * MaxPageSize, 2 * MaxPageSize + 1}

\* the lengths of the page a provider that honours the page size n may send
PageLengths(n) == {k \in {0, 1, 2, n - 1, n} : k >= 0 /\ k <= n}

\* 280-290: a page of the fallback search, of messages not listed before
listMessages_searchPageOfMany ==
  /\ pc = "fallbackSearch"
  /\ \E k \in PageLengths(SearchPageSize), tok \in BOOLEAN :
       SearchPageArrives([i \in 1..k |-> ToString(Len(allFoundMessages) + i)], tok)

InitSearch ==
  /\ afterDate = <<>>
  /\ beforeDate = <<>>
  /\ maxResults \in SearchLimits
  /\ resolver = <<>>
  /\ HistoryInit
  /\ FetchInit
  /\ searchPageToken = FALSE
  /\ allFoundMessages = <<>>
  /\ pagesServed = 0
  /\ fallbackRuns = 1
  /\ result = <<>>
  /\ parsed = <<>>
  /\ pc = "fallbackSearch"
  /\ stages = <<"FALLBACK_SEARCHING">>
  /\ AppIdle

NextSearch ==
  \/ listMessages_searchPageOfMany
  \/ listMessages_searchError

SpecSearch == InitSearch /\ [][NextSearch]_vars

(***************************************************************************)
(* App.tsx: selection and recovery over a list of parsed emails            *)
(***************************************************************************)
\* gmailService.ts 398-415: the parameters moveToInbox gives batchModify
moveToInbox(messageIds, removeLabelId) ==
  [ids |-> messageIds,
   addLabelIds |-> {"INBOX"},
   removeLabelIds |-> IF removeLabelId # "" /\ removeLabelId # "INBOX"
                      THEN {removeLabelId} ELSE {}]

Selected(e) == e.selected

\* App.tsx 127-129
toggleSelection(id) ==
  /\ emails' = [i \in 1..Len(emails) |->
                  IF emails[i].id = id
                  THEN [emails[i] EXCEPT !.selected = ~emails[i].selected]
                  ELSE emails[i]]
  /\ UNCHANGED <<appState, isLoading, recover, moveCalls, pendingTimers,
                 selectedLabelId, statusMsg, scanning, authVars, scanVars>>

\* App.tsx 131-134
selectAll ==
  /\ LET allSelected == \A i \in 1..Len(emails) : emails[i].selected
     IN emails' = [i \in 1..Len(emails) |-> [emails[i] EXCEPT !.selected = ~allSelected]]
  /\ UNCHANGED <<appState, isLoading, recover, moveCalls, pendingTimers,
                 selectedLabelId, statusMsg, scanning, authVars, scanVars>>

RECURSIVE FlattenMemberIds(_)
\* the member ids of every email of list, flattened
FlattenMemberIds(list) ==
  IF list = <<>> THEN <<>>
  ELSE Head(list).allMessageIds \o FlattenMemberIds(Tail(list))

\* App.tsx 144: const ids = toRecover.map(e => e.id)
RecoverIds(toRecover) == [i \in 1..Len(toRecover) |-> toRecover[i].id]

\* App.tsx 136-145: handleRecover up to await moveToInbox(ids).  The button
\* is rendered while something is selected and takes isLoading.
handleRecover ==
  /\ ~isLoading
  /\ recover = <<>>
  /\ Len(moveCalls) < MaxCalls
  /\ LET toRecover == SelectSeq(emails, Selected)
         ids == RecoverIds(toRecover)
     IN /\ Len(toRecover) # 0
        /\ isLoading' = TRUE
        /\ statusMsg' = <<"Moving emails to Inbox...", Len(toRecover)>>
        /\ moveCalls' = Append(moveCalls, moveToInbox(ids, ""))
        /\ recover' = <<[toRecover |-> toRecover, ids |-> ids]>>
  /\ UNCHANGED <<emails, appState, pendingTimers, selectedLabelId, scanning, authVars,
                 scanVars>>

\* a plausible slip: the emails selected when the call settles are removed
handleRecover_resolvedBySelection ==
  /\ recover # <<>>
  /\ LET Stays(e) == ~e.selected
     IN emails' = SelectSeq(emails, Stays)
  /\ statusMsg' = <<"Success! emails recovered to Inbox.", Len(recover[1].toRecover)>>
  /\ appState' = "PROCESSING_RECOVERY"
  /\ pendingTimers' = pendingTimers + 1
  /\ isLoading' = FALSE
  /\ recover' = <<>>
  /\ UNCHANGED <<moveCalls, selectedLabelId, scanning, authVars, scanVars>>

\* App.tsx 147-151, 155: moveToInbox resolved
handleRecover_resolved ==
  /\ recover # <<>>
  /\ LET ids == Range(recover[1].ids)
         Stays(e) == e.id \notin ids
     IN emails' = SelectSeq(emails, Stays)
  /\ statusMsg' = <<"Success! emails recovered to Inbox.", Len(recover[1].toRecover)>>
  /\ appState' = "PROCESSING_RECOVERY"
  /\ pendingTimers' = pendingTimers + 1
  /\ isLoading' = FALSE
  /\ recover' = <<>>
  /\ UNCHANGED <<moveCalls, selectedLabelId, scanning, authVars, scanVars>>

\* App.tsx 152-155: moveToInbox rejected
handleRecover_rejected ==
  /\ recover # <<>>
  /\ statusMsg' = <<"Failed to move emails. Check console.">>
  /\ isLoading' = FALSE
  /\ recover' = <<>>
  /\ UNCHANGED <<emails, appState, moveCalls, pendingTimers, selectedLabelId,
                 scanning, authVars, scanVars>>

\* App.tsx 151: the setTimeout callback
recoveryTimer ==
  /\ pendingTimers > 0
  /\ pendingTimers' = pendingTimers - 1
  /\ appState' = "REVIEW_EMAILS"
  /\ UNCHANGED <<emails, isLoading, recover, moveCalls, selectedLabelId, statusMsg,
                 scanning, authVars, scanVars>>

\* the lists of messages a scan can have fetched
FetchedLists ==
  {[j \in 1..Len(ids) |-> RawMessage(ids[j], th[j], {"L"})] :
     ids \in DistinctSeqs(DedupeIds, Cardinality(DedupeIds)),
     th \in [1..Cardinality(DedupeIds) -> ThreadIds]}

\* the email lists a scan can have left on display
EmailLists ==
  {[i \in 1..Len(Dedupe(fm)) |-> parseMessage(Dedupe(fm)[i], <<>>)] : fm \in FetchedLists}

\* App.tsx 79-103: startScanning up to await listMessages.  The Scan button
\* is rendered in the SELECT_LABEL view, is disabled without a label and
\* takes isLoading.
startScanning ==
  /\ appState = "SELECT_LABEL"
  /\ ~isLoading
  /\ selectedLabelId # ""
  /\ scanning = <<>>
  /\ appState' = "LOADING_EMAILS"
  /\ isLoading' = TRUE
  /\ statusMsg' = <<"Scanning label timeline...">>
  /\ scanning' = <<[label |-> selectedLabelId]>>
  /\ UNCHANGED <<emails, recover, moveCalls, pendingTimers, selectedLabelId, authVars,
                 scanVars>>

\* App.tsx 104-110, 114: listMessages resolved; the parsed messages, in the
\* order of their dates, replace the list
startScanning_resolvedWith(list) ==
  /\ scanning # <<>>
  /\ emails' = list
  /\ statusMsg' = <<"Found emails from the selected period.", Len(list)>>
  /\ appState' = "REVIEW_EMAILS"
  /\ isLoading' = FALSE
  /\ scanning' = <<>>
  /\ UNCHANGED <<recover, moveCalls, pendingTimers, selectedLabelId, authVars,
                 scanVars>>

startScanning_resolved == \E list \in EmailLists : startScanning_resolvedWith(list)

\* a plausible slip: the catch clears the list
startScanning_rejectedClears ==
  /\ scanning # <<>>
  /\ emails' = <<>>
  /\ statusMsg' = <<"Error fetching emails. Please try again.">>
  /\ isLoading' = FALSE
  /\ scanning' = <<>>
  /\ UNCHANGED <<appState, recover, moveCalls, pendingTimers, selectedLabelId, authVars,
                 scanVars>>

\* App.tsx 111-115: listMessages rejected
startScanning_rejected ==
  /\ scanning # <<>>
  /\ statusMsg' = <<"Error fetching emails. Please try again.">>
  /\ isLoading' = FALSE
  /\ scanning' = <<>>
  /\ UNCHANGED <<emails, appState, recover, moveCalls, pendingTimers, selectedLabelId,
                 authVars, scanVars>>

\* App.tsx 357, 394: back to the SELECT_LABEL view
changeTimeline ==
  /\ appState' = "SELECT_LABEL"
  /\ UNCHANGED <<emails, isLoading, recover, moveCalls, pendingTimers, selectedLabelId,
                 statusMsg, scanning, authVars, scanVars>>

\* App.tsx 316: the views that show the list and its controls
ReviewViews == {"REVIEW_EMAILS", "PROCESSING_RECOVERY", "LOADING_EMAILS"}

InitAppOf(lists) ==
  /\ afterDate = <<>>
  /\ beforeDate = <<>>
  /\ maxResults = MaxPageSize
  /\ resolver = <<>>
  /\ ScanLocalsInit
  /\ pc = "start"
  /\ emails \in lists
  /\ appState = "REVIEW_EMAILS"
  /\ isLoading = FALSE
  /\ recover = <<>>
  /\ moveCalls = <<>>
  /\ pendingTimers = 0
  /\ selectedLabelId = labelId
  /\ statusMsg = <<"Found emails from the selected period.", Len(emails)>>
  /\ scanning = <<>>
  /\ AuthIdle

InitApp == InitAppOf(EmailLists)

NextApp ==
  \/ \E id \in DedupeIds : id \in {emails[i].id : i \in 1..Len(emails)} /\ toggleSelection(id)
  \/ selectAll
  \/ handleRecover
  \/ handleRecover_resolved
  \/ handleRecover_rejected
  \/ recoveryTimer

SpecApp == InitApp /\ [][NextApp]_vars

(***************************************************************************)
(* App.tsx: scanning again over a list on display                          *)
(***************************************************************************)
NextScan ==
  \/ /\ appState \in ReviewViews
     /\ \/ \E id \in DedupeIds :
             id \in {emails[i].id : i \in 1..Len(emails)} /\ toggleSelection(id)
        \/ selectAll
        \/ changeTimeline
  \/ startScanning
  \/ startScanning_resolved
  \/ startScanning_rejected

SpecScan == InitApp /\ [][NextScan]_vars

(***************************************************************************)
(* App.tsx: restoring whole lists, leaving the list and scanning again     *)
(***************************************************************************)
\* the lists of the scans that located one thread
ReviewLists == {list \in EmailLists : Len(list) = 1}

NextReview ==
  \/ appState \in ReviewViews /\ selectAll
  \/ handleRecover
  \/ handleRecover_resolved
  \/ handleRecover_rejected
  \/ recoveryTimer
  \/ appState \in ReviewViews /\ changeTimeline
  \/ startScanning
  \/ \E list \in ReviewLists : startScanning_resolvedWith(list)
  \/ startScanning_rejected

SpecReview == InitAppOf(ReviewLists) /\ [][NextReview]_vars

(***************************************************************************)
(* gmailService.ts: authentication.  Times are in units of 5 minutes        *)
(* (300000 ms).  An absent or null field is <<>>, a present one <<value>>;  *)
(* an absent string is "".                                                  *)
(***************************************************************************)
ExpiresIn == 1..MaxExpiresIn
TokenBuffer == 1       \* gmailService.ts 32: 300000 ms

\* what the identity service can hand to tokenClient.callback
GrantedTokens ==
  {[error |-> "", access_token |-> "ya29", expires_in |-> <<n>>] : n \in ExpiresIn}
ErrorResponses == {[error |-> "access_denied", access_token |-> "", expires_in |-> <<>>]}
TokenResponses == GrantedTokens \cup ErrorResponses

\* gmailService.ts 18-25: the item saveToken leaves under TOKEN_KEY.  A
\* response without expires_in gets expiry NaN, which JSON.stringify writes
\* as null.
saveToken(token) ==
  <<[error |-> token.error, access_token |-> token.access_token,
     expires_in |-> token.expires_in,
     expiry |-> IF token.expires_in = <<>> THEN <<>>
                ELSE <<dateNow + token.expires_in[1]>>]>>

\* gmailService.ts 31-32: Date.now() > token.expiry - 300000, null read as 0
Expired(token) ==
  dateNow > (IF token.expiry = <<>> THEN 0 ELSE token.expiry[1]) - TokenBuffer

\* gmailService.ts 27-37: the token returned, <<>> for null
getPersistedToken ==
  IF localStorage = <<>> THEN <<>>
  ELSE IF Expired(localStorage[1]) THEN <<>>
  ELSE localStorage

\* gmailService.ts 28-35: the store after the call
getPersistedToken_store ==
  IF localStorage # <<>> /\ Expired(localStorage[1]) THEN <<>> ELSE localStorage

\* a promise settles once: resolve and reject act on a pending promise only
Settle(promise, outcome) == IF promise = <<"pending">> THEN outcome ELSE promise

NotInitialized ==
  [message |-> "Auth client not initialized. Please provide a Client ID first."]

uiVars == <<emails, appState, isLoading, recover, moveCalls, pendingTimers,
            selectedLabelId, statusMsg, scanning>>

\* gmailService.ts 89-97
initTokenClient ==
  /\ ~tokenClient
  /\ tokenClient' = TRUE
  /\ UNCHANGED <<tokenRequested, gapiToken, localStorage, authPromise, dateNow,
                 uiVars, scanVars>>

\* gmailService.ts 99-129: handleAuthClick up to its return; one login is
\* followed at a time
handleAuthClick ==
  /\ authPromise # <<"pending">>
  /\ IF ~tokenClient
     THEN /\ authPromise' = <<"rejected", NotInitialized>>
          /\ UNCHANGED <<tokenRequested, gapiToken, localStorage>>
     ELSE LET existingToken == getPersistedToken
          IN /\ localStorage' = getPersistedToken_store
             /\ IF existingToken # <<>>
                THEN /\ gapiToken' = existingToken
                     /\ authPromise' = <<"resolved">>
                     /\ UNCHANGED tokenRequested
                ELSE /\ tokenRequested' = TRUE
                     /\ authPromise' = <<"pending">>
                     /\ UNCHANGED gapiToken
  /\ UNCHANGED <<tokenClient, dateNow, uiVars, scanVars>>

\* gmailService.ts 106-114: tokenClient.callback.  reject(resp) is not
\* followed by a return, so the three statements after the test run for
\* every response.
tokenCallback(resp) ==
  /\ tokenRequested
  /\ tokenRequested' = FALSE
  /\ gapiToken' = <<resp>>
  /\ localStorage' = saveToken(resp)
  /\ authPromise' =
       Settle(IF resp.error # "" THEN Settle(authPromise, <<"rejected", resp>>)
              ELSE authPromise,
              <<"resolved">>)
  /\ UNCHANGED <<tokenClient, dateNow, uiVars, scanVars>>

\* time passes
tick ==
  /\ dateNow < MaxClock
  /\ dateNow' = dateNow + 1
  /\ UNCHANGED <<tokenClient, tokenRequested, gapiToken, localStorage, authPromise,
                 uiVars, scanVars>>

InitAuth ==
  /\ afterDate = <<>>
  /\ beforeDate = <<>>
  /\ maxResults = MaxPageSize
  /\ resolver = <<>>
  /\ ScanLocalsInit
  /\ pc = "start"
  /\ AppIdle

NextAuth ==
  \/ initTokenClient
  \/ handleAuthClick
  \/ \E resp \in TokenResponses : tokenCallback(resp)
  \/ tick

SpecAuth == InitAuth /\ [][NextAuth]_vars

(***************************************************************************)
(* Properties                                                              *)
(***************************************************************************)
IdsOf(msgs) == [i \in 1..Len(msgs) |-> msgs[i].id]
IsDistinct(seq) == \A i, j \in 1..Len(seq) : i # j => seq[i] # seq[j]
FallbackStages == {"fallbackSearch", "fetchFallback", "done", "parsed", "failed"}
LaterFailures == {"fallbackSearch", "fetchDetails"}

\* C1: when a selection is restored, moveToInbox is given the flattened
\* member ids of every selected email, not only the representative ids.
C1_RestoreGetsAllMemberIds ==
  recover # <<>> =>
    moveCalls[Len(moveCalls)].ids = FlattenMemberIds(recover[1].toRecover)

\* C2: for fetched messages with distinct ids, the member ids of the output
\* groups hold every input id exactly once.
C2_GroupsPartitionInput ==
  (pc = "parsed" /\ IsDistinct(IdsOf(finalMessages))) =>
    LET members == FlattenMemberIds(parsed)
    IN /\ Len(members) = Len(finalMessages)
       /\ Range(members) = Range(IdsOf(finalMessages))

C2_Witness ==
  /\ pc = "parsed"
  /\ Len(finalMessages) = 3
  /\ finalMessages[1].threadId = finalMessages[3].threadId
  /\ finalMessages[2].threadId # finalMessages[1].threadId
  /\ Len(parsed) = 2
  /\ Len(parsed[1].allMessageIds) = 2

\* C3: a change-log scan that completes with no qualifying event runs the
\* fallback search exactly once and is not reported as a failure.
C3_EmptyScanRunsFallbackOnce ==
  (usedHistory /\ Len(targetMessageIds) = 0) =>
    /\ fallbackRuns = 1
    /\ pc \in FallbackStages
    /\ pc = "failed" => failStage \in LaterFailures

C3_Witness ==
  /\ usedHistory
  /\ Len(targetMessageIds) = 0
  /\ fallbackRuns = 1
  /\ pc = "parsed"
  /\ Len(parsed) > 0

\* C4: a change-log page request that throws, on the first page or a later
\* one, never fails the scan: the fallback search runs, and the events
\* recorded before the error are not used.
C4_HistoryErrorFallsBack ==
  histFailed =>
    /\ fallbackRuns = 1
    /\ pc \in FallbackStages
    /\ pc = "failed" => failStage \in LaterFailures
    /\ pc \in {"fetchFallback", "done", "parsed"} => idArray = allFoundMessages
    /\ \A j \in 1..Len(finalMessages) : finalMessages[j].actionHistoryId = <<>>
    /\ result # <<>> => result[1].historyRange = <<>>
    /\ \A i \in 1..Len(parsed) : parsed[i].labelAddedAt = Undefined

C4_Witness ==
  /\ histFailed
  /\ Len(events) > 0
  /\ pc = "parsed"
  /\ \E i \in 1..Len(parsed) : parsed[i].id \in historyFoundIds

\* C5: every message obtained through the fallback search ends with
\* labelAddedAt undefined, however the fallback was reached.
C5_FallbackHasNoLabelTime ==
  (pc = "parsed" /\ fallbackRuns > 0) =>
    \A i \in 1..Len(parsed) : parsed[i].labelAddedAt = Undefined

C5_Witness ==
  /\ pc = "parsed"
  /\ fallbackRuns > 0
  /\ usedHistory
  /\ result[1].historyRange # <<>>
  /\ Len(parsed) > 0

InBracket(p, r) ==
  p # <<>> /\ BigInt(r.startId) <= BigInt(p) /\ BigInt(p) <= BigInt(r.endId)
LeqTime(a, b) == a.num * b.den <= b.num * a.den
Millis(t) == Time(t * MsPerSec, 1)
Position(i) == result[1].messages[i].actionHistoryId

\* C6: with startPosition < endPosition and startTime <= endTime, a position
\* inside the bracket gets a time within [startTime, endTime], and of two such
\* positions the lower one does not get the later time.
C6_InterpolationBoundedMonotone ==
  (pc = "parsed" /\ result[1].historyRange # <<>>) =>
    LET r == result[1].historyRange[1]
        n == Len(parsed)
    IN (BigInt(r.startId) < BigInt(r.endId) /\ r.startTime <= r.endTime) =>
         /\ \A i \in 1..n :
              InBracket(Position(i), r) =>
                /\ parsed[i].labelAddedAt.kind = "time"
                /\ LeqTime(Millis(r.startTime), parsed[i].labelAddedAt)
                /\ LeqTime(parsed[i].labelAddedAt, Millis(r.endTime))
         /\ \A i, j \in 1..n :
              (/\ InBracket(Position(i), r)
               /\ InBracket(Position(j), r)
               /\ BigInt(Position(i)) <= BigInt(Position(j))) =>
                LeqTime(parsed[i].labelAddedAt, parsed[j].labelAddedAt)

C6_Witness ==
  /\ pc = "parsed"
  /\ result[1].historyRange # <<>>
  /\ LET r == result[1].historyRange[1]
     IN /\ r.startTime < r.endTime
        /\ Position(1) # <<>>
        /\ Position(2) # <<>>
        /\ BigInt(r.startId) < BigInt(Position(1))
        /\ BigInt(Position(1)) < BigInt(Position(2))
        /\ BigInt(Position(2)) < BigInt(r.endId)
        /\ parsed[1].labelAddedAt.kind = "time"
        /\ ~LeqTime(parsed[2].labelAddedAt, parsed[1].labelAddedAt)

\* C7: when the range's start and end positions are the same integer, every
\* event position gets undefined, whatever the text of the two positions.
C7_ZeroWidthBracketUndefined ==
  (pc = "parsed" /\ result[1].historyRange # <<>>) =>
    LET r == result[1].historyRange[1]
    IN BigInt(r.startId) = BigInt(r.endId) =>
         \A i \in 1..Len(parsed) : parsed[i].labelAddedAt = Undefined

\* C8: a position below the start or above the end of the bracket, a missing
\* range and a message without an event position all give undefined.
C8_OutsideBracketUndefined ==
  pc = "parsed" =>
    \A i \in 1..Len(parsed) :
      (\/ result[1].historyRange = <<>>
       \/ Position(i) = <<>>
       \/ BigInt(Position(i)) < BigInt(result[1].historyRange[1].startId)
       \/ BigInt(Position(i)) > BigInt(result[1].historyRange[1].endId)) =>
        parsed[i].labelAddedAt = Undefined

C8_Witness ==
  /\ pc = "parsed"
  /\ result[1].historyRange # <<>>
  /\ LET r == result[1].historyRange[1]
     IN /\ BigInt(r.startId) < BigInt(r.endId)
        /\ Position(1) # <<>>
        /\ Position(2) # <<>>
        /\ BigInt(Position(1)) < BigInt(r.startId)
        /\ BigInt(Position(2)) > BigInt(r.endId)
        /\ parsed[1].labelAddedAt = Undefined
        /\ parsed[2].labelAddedAt = Undefined

EventsOf(m) == {i \in 1..Len(events) : events[i].msg = m}
FirstPos(m) == events[CHOOSE i \in EventsOf(m) : \A j \in EventsOf(m) : i <= j].pos
LastPos(m) == events[CHOOSE i \in EventsOf(m) : \A j \in EventsOf(m) : i >= j].pos

C10_NothingBeyondEndAnchor ==
  endHistoryId # <<>> =>
    /\ \A i \in 1..Len(events) : BigInt(events[i].pos) <= BigInt(endHistoryId)
    /\ \A i \in 1..Len(actionHistoryMap) :
         BigInt(actionHistoryMap[i].v) <= BigInt(endHistoryId)

\* C11: once a change-log record beyond the end anchor's position has been
\* served, the scanner processes no later record and requests no further
\* change-log page, whatever token the page carried.
C11_StopsAtFirstRecordBeyondEnd ==
  beyond # <<>> =>
    /\ pc # "historyPage"
    /\ \A i \in 1..Len(events) : BigInt(events[i].pos) <= BigInt(beyond)

InRange(pos) == endHistoryId # <<>> => BigInt(pos) <= BigInt(endHistoryId)

\* C12: a message id is in the scanner's event set only if a processed record
\* within the end anchor adds the target label to it, and it is there once.
C12_EventSetMembership ==
  /\ IsDistinct(targetMessageIds)
  /\ \A m \in Range(targetMessageIds) :
       \E i \in 1..Len(events) : events[i].msg = m /\ InRange(events[i].pos)
  /\ historyFoundIds = Range(targetMessageIds)

\* C13: every HistoryRange a scan returns has startPosition <= endPosition.
C13_RangeStartNotAfterEnd ==
  (result # <<>> /\ result[1].historyRange # <<>>) =>
    BigInt(result[1].historyRange[1].startId) <= BigInt(result[1].historyRange[1].endId)

\* C14: when a detail request fails, in whatever chunk, listMessages fails:
\* it returns nothing, not even what earlier chunks fetched, and issues no
\* chunk after the one the failed request belongs to.
C14_DetailFailureFailsScan ==
  failStage = "fetchDetails" =>
    /\ pc = "failed"
    /\ result = <<>>
    /\ parsed = <<>>
    /\ Len(chunksIssued) = chunkI \div ChunkSize + 1

C14_Witness ==
  /\ failStage = "fetchDetails"
  /\ Len(idArray) = 45
  /\ chunkI = ChunkSize
  /\ Len(finalMessages) = ChunkSize
  /\ inFlight = {}
  /\ result = <<>>
  /\ Len(chunksIssued) = 2

RECURSIVE Concat(_)
Concat(seqs) == IF seqs = <<>> THEN <<>> ELSE Head(seqs) \o Concat(Tail(seqs))

\* C15: the detail requests issued are those of the ids in input order, one
\* per id, in chunks of exactly 20 but for the last; a fetch of n ids that
\* does not fail issues ceil(n/20) chunks that hold every id.
C15_OneRequestPerIdInChunks ==
  LET issued == Concat(chunksIssued)
      n == Len(idArray)
  IN /\ Len(issued) <= n
     /\ issued = SubSeq(idArray, 1, Len(issued))
     /\ \A k \in 1..Len(chunksIssued) :
          /\ Len(chunksIssued[k]) \in 1..ChunkSize
          /\ k < Len(chunksIssued) => Len(chunksIssued[k]) = ChunkSize
     /\ pc \in {"done", "parsed"} =>
          /\ issued = idArray
          /\ Len(chunksIssued) = (n + ChunkSize - 1) \div ChunkSize

C15_Witness ==
  /\ pc = "done"
  /\ Len(idArray) = 45
  /\ Len(chunksIssued) = 3
  /\ Len(chunksIssued[1]) = 20
  /\ Len(chunksIssued[2]) = 20
  /\ Len(chunksIssued[3]) = 5

\* C16: the requests in flight all belong to the chunk issued last, so they
\* are at most 20, and none is in flight once the fetch has returned.
C16_ChunksInSequence ==
  /\ inFlight \subseteq chunkI + 1 .. chunkI + ChunkSize
  /\ Cardinality(inFlight) <= ChunkSize
  /\ pc \in {"done", "parsed"} => inFlight = {}

C16_Witness ==
  /\ pc \in {"fetchHistory", "fetchFallback"}
  /\ chunkI = ChunkSize
  /\ Len(chunksIssued) = 2
  /\ chunkI + 1 \notin inFlight
  /\ chunkI + ChunkSize \notin inFlight
  /\ chunkI + 2 \in inFlight

ScanFailed ==
  scanning # <<>> /\ scanning' = <<>> /\ appState' # "REVIEW_EMAILS"

\* C17: the step in which a scan's failure reaches startScanning shows the
\* scan-level error message and leaves the list on display as it was.
C17_FailedScanKeepsList ==
  [][ScanFailed =>
       /\ emails' = emails
       /\ statusMsg' = <<"Error fetching emails. Please try again.">>]_vars

C17_Witness ==
  /\ Len(emails) > 1
  /\ \E i \in 1..Len(emails) : emails[i].selected
  /\ statusMsg = <<"Error fetching emails. Please try again.">>
  /\ scanning = <<>>
  /\ ~isLoading

Last(seq) == seq[Len(seq)]
IsPrefix(a, b) == Len(a) <= Len(b) /\ a = SubSeq(b, 1, Len(a))

FullOrders ==
  {<<"ANCHORING", "SCANNING", "INTERPOLATING", "FETCHING_DETAILS", "DEDUPLICATING", "DONE">>,
   <<"ANCHORING", "SCANNING", "FALLBACK_SEARCHING", "FETCHING_DETAILS", "DEDUPLICATING",
     "DONE">>}

StageRank(name) ==
  CASE name = "ANCHORING" -> 1
    [] name = "SCANNING" -> 2
    [] name = "FALLBACK_SEARCHING" -> 3
    [] name = "FETCHING_DETAILS" -> 4
    [] name = "DEDUPLICATING" -> 5
    [] name = "DONE" -> 6
    [] name = "INTERPOLATING" -> 7
    [] name = "FAILED" -> 8

C20_NullOnlyOnTransportFailure ==
  resolver # <<>> =>
    LET r == resolver[1]
    IN /\ r.out = <<>> <=> (r.search = "fail" \/ ~r.ok)
       /\ (r.search = "found" /\ r.ok) => r.out = r.msgHistoryId
       /\ (r.search = "none" /\ r.ok) => r.out = r.profileHistoryId

C20_Witness ==
  /\ resolver # <<>>
  /\ resolver[1].search = "none"
  /\ resolver[1].ok
  /\ resolver[1].msgHistoryId # resolver[1].profileHistoryId
  /\ resolver[1].out = resolver[1].profileHistoryId

\* C21: the fallback search asks for a further page only while the page
\* before carried a next-page token and fewer than maxResults messages are
\* accumulated; a request asks for at most min(500, maxResults - accumulated)
\* ids, and the located list never holds more than maxResults messages.
C21_FallbackPagination ==
  fallbackRuns > 0 =>
    /\ Len(allFoundMessages) <= maxResults
    /\ (pc = "fallbackSearch" /\ pagesServed > 0) =>
         (searchPageToken /\ Len(allFoundMessages) < maxResults)
    /\ pc = "fallbackSearch" =>
         /\ SearchPageSize <= MaxPageSize
         /\ SearchPageSize <= maxResults - Len(allFoundMessages)
    /\ (pc # "fallbackSearch" /\ failStage # "fallbackSearch") =>
         (~searchPageToken \/ Len(allFoundMessages) >= maxResults)

C21_Witness ==
  /\ pc = "fetchFallback"
  /\ maxResults = MaxPageSize + 1
  /\ Len(allFoundMessages) = MaxPageSize + 1
  /\ idArray = allFoundMessages

\* the scan went through the change log and both anchors bracket s < e over a
\* window that starts before it ends
BracketedScan ==
  /\ pc = "parsed"
  /\ usedHistory
  /\ startHistoryId # <<>>
  /\ endHistoryId # <<>>
  /\ result[1].historyRange # <<>>
  /\ BigInt(startHistoryId) < BigInt(endHistoryId)
  /\ afterTs < beforeTs

\* the returned message i has its event position strictly inside the bracket
StrictlyInside(i) ==
  LET p == result[1].messages[i].actionHistoryId
  IN /\ p # <<>>
     /\ BigInt(startHistoryId) < BigInt(p)
     /\ BigInt(p) < BigInt(endHistoryId)

C23_OwnIdAmongMembers ==
  pc = "parsed" =>
    \A i \in 1..Len(parsed) : parsed[i].id \in Range(parsed[i].allMessageIds)

C23_Witness ==
  /\ pc = "parsed"
  /\ Len(parsed) = 2
  /\ Len(parsed[1].allMessageIds) = 2
  /\ parsed[1].id = parsed[1].allMessageIds[1]
  /\ parsed[2].allMessageIds = <<parsed[2].id>>

\* the indices of the fetched messages of thread t, in input order
IndicesOfThread(t) ==
  LET OfThread(j) == finalMessages[j].threadId = t
  IN SelectSeq([j \in 1..Len(finalMessages) |-> j], OfThread)

\* C24: the grouping returns one message per distinct threadId of the fetched
\* messages; it is the first fetched message of that thread, and its member
\* ids are the ids of the thread's messages in the order fetched.
C24_OnePerThreadFirstRepresents ==
  (pc \in {"done", "parsed"} /\ Len(finalMessages) > 0) =>
    LET out == result[1].messages
    IN /\ Len(out) = Cardinality({finalMessages[j].threadId : j \in 1..Len(finalMessages)})
       /\ \A i, k \in 1..Len(out) : i # k => out[i].threadId # out[k].threadId
       /\ \A i \in 1..Len(out) :
            LET idx == IndicesOfThread(out[i].threadId)
            IN /\ idx # <<>>
               /\ out[i] = [finalMessages[idx[1]] EXCEPT !.allIds = out[i].allIds]
               /\ out[i].allIds = <<[j \in 1..Len(idx) |-> finalMessages[idx[j]].id]>>
               /\ pc = "parsed" =>
                    /\ parsed[i].id = finalMessages[idx[1]].id
                    /\ parsed[i].allMessageIds =
                         [j \in 1..Len(idx) |-> finalMessages[idx[j]].id]

C24_Witness ==
  /\ pc = "parsed"
  /\ Len(finalMessages) = 2
  /\ finalMessages[1].threadId = finalMessages[2].threadId
  /\ Len(parsed) = 1
  /\ parsed[1].id = finalMessages[1].id
  /\ parsed[1].allMessageIds = <<finalMessages[1].id, finalMessages[2].id>>

\* C25: a failure of a scan reaches the caller as a tagged failure that
\* names the stage it came from and carries the underlying cause.
C25_FailureCarriesStageAndCause ==
  pc = "failed" =>
    /\ thrown # <<>>
    /\ {"stage", "cause"} \subseteq DOMAIN thrown[1]
    /\ thrown[1].stage = failStage
    /\ thrown[1].cause = TransportError

\* C26: the stop condition and the bracket test order two positions as
\* integer comparison does: the scan is stopped exactly when a record served
\* lies beyond the end anchor, and a recorded position is interpolated exactly
\* when it lies within the two ends of a bracket that has a width.
C26_TestsOrderAsIntegers ==
  /\ endHistoryId # <<>> => (stopScanning <=> beyond # <<>>)
  /\ (pc = "parsed" /\ result[1].historyRange # <<>>) =>
       LET r == result[1].historyRange[1]
       IN \A i \in 1..Len(parsed) :
            (Position(i) # <<>> /\ BigInt(r.startId) # BigInt(r.endId)) =>
              (parsed[i].labelAddedAt # Undefined <=>
                 (/\ BigInt(r.startId) <= BigInt(Position(i))
                  /\ BigInt(Position(i)) <= BigInt(r.endId)))

\* the window start is given and is later than now minus six days
StartWithinRetention == afterDate # <<>> /\ afterTs > Now - HistoryLimit

\* C27: the change-log path is attempted only when the window start is given
\* and later than now minus six days; otherwise the scan resolves no anchor,
\* requests no change-log page and goes straight to the fallback search.
C27_ChangeLogOnlyWithinRetention ==
  /\ (pc \in {"anchorStart", "anchorEnd", "historyPage"} \/ "ANCHORING" \in Range(stages)) =>
       StartWithinRetention
  /\ (~StartWithinRetention /\ pc # "start") =>
       /\ stages[1] = "FALLBACK_SEARCHING"
       /\ fallbackRuns = 1
       /\ startHistoryId = <<>>
       /\ endHistoryId = <<>>
       /\ ~usedHistory
       /\ ~histFailed
       /\ events = <<>>
       /\ dropped = <<>>
       /\ targetMessageIds = <<>>

C27_Witness ==
  /\ afterDate = ToStr(Now - HistoryLimit)
  /\ pc = "parsed"
  /\ stages[1] = "FALLBACK_SEARCHING"
  /\ Len(parsed) > 0
  /\ result[1].historyRange = <<>>

\* C28: when every transport call settles and the chain of next-page tokens
\* is finite, a call of listMessages eventually returns or throws.
C28_ScanTerminates == <>(pc \in {"done", "parsed", "failed"})

C28_Witness ==
  /\ pc = "parsed"
  /\ Len(chunksIssued) = 3
  /\ Len(finalMessages) = 2 * ChunkSize + 1

\* the scan returned the messages it found in the change log
ReturnedFromChangeLog ==
  /\ pc \in {"done", "parsed"}
  /\ usedHistory
  /\ Len(targetMessageIds) > 0

\* C29: every message a change-log scan returns bore the target label in the
\* metadata fetched for it; the messages that did not are left out, and when
\* none did the result is empty and no fallback search is run.
C29_ChangeLogResultBearsLabel ==
  ReturnedFromChangeLog =>
    /\ fallbackRuns = 0
    /\ \A i \in 1..Len(finalMessages) :
         /\ labelId \in finalMessages[i].labelIds
         /\ finalMessages[i].id \in Range(idArray)
    /\ \A i \in 1..Len(result[1].messages) : labelId \in result[1].messages[i].labelIds
    /\ \A i \in 1..Len(parsed) : labelId \in parsed[i].labelIds
    /\ Len(finalMessages) = 0 => result[1] = [messages |-> <<>>, historyRange |-> <<>>]

C29_Witness ==
  /\ ReturnedFromChangeLog
  /\ Len(idArray) = 2
  /\ result[1].messages = <<>>
  /\ stages = <<"ANCHORING", "SCANNING", "FETCHING_DETAILS", "DONE">>

ScanSettled == scanning # <<>> /\ scanning' = <<>>

\* C30: the step in which startScanning settles, on the scan's success or on
\* its failure, leaves isLoading false and the app state other than
\* LOADING_EMAILS.
C30_SettledScanLeavesLoading ==
  [][ScanSettled => ~isLoading' /\ appState' # "LOADING_EMAILS"]_vars

\* the half of C30 that the code keeps: a settled scan clears isLoading
C30_SettledScanClearsIsLoading ==
  [][ScanSettled => ~isLoading']_vars

RecoverInvoked == recover = <<>> /\ recover' # <<>>
RecoverSettled == recover # <<>> /\ recover' = <<>>
RecoverSucceeded == RecoverSettled /\ statusMsg'[1] = "Success! emails recovered to Inbox."
RecoverFailed == RecoverSettled /\ statusMsg'[1] = "Failed to move emails. Check console."
SelectedIds(list) == {list[i].id : i \in {j \in 1..Len(list) : list[j].selected}}
NotAmong(ids, list) == LET Other(e) == e.id \notin ids IN SelectSeq(list, Other)

\* C31: handleRecover sends a restore call only for a non-empty selection and
\* remembers the emails selected at that moment; when the call succeeds exactly
\* those emails leave the list and every other email stays as it was, in its
\* place; when the call fails the list is unchanged.
C31_RecoverRemovesInvokedSelection ==
  [][/\ moveCalls' # moveCalls => SelectedIds(emails) # {} /\ RecoverInvoked
     /\ RecoverInvoked => Range(recover'[1].ids) = SelectedIds(emails)
     /\ RecoverSettled => RecoverSucceeded \/ RecoverFailed
     /\ RecoverSucceeded => emails' = NotAmong(Range(recover[1].ids), emails)
     /\ RecoverFailed => emails' = emails]_vars

\* a restore succeeded after the selection was changed during the call: an
\* email selected at invocation is gone and one selected since then remains
C31_Witness ==
  /\ appState = "PROCESSING_RECOVERY"
  /\ recover = <<>>
  /\ Len(moveCalls) = 1
  /\ Len(emails) > 0
  /\ \E i \in 1..Len(emails) : emails[i].selected
  /\ \A i \in 1..Len(emails) : emails[i].id \notin Range(moveCalls[1].ids)
  /\ statusMsg[1] = "Success! emails recovered to Inbox."

TimerFired == pendingTimers' < pendingTimers

\* C32: the delayed transition of a successful recovery sets REVIEW_EMAILS
\* only when the app is still in PROCESSING_RECOVERY; in any other state the
\* step leaves the app state as the user left it.
C32_TimerKeepsLaterState ==
  [][TimerFired =>
       appState' = IF appState = "PROCESSING_RECOVERY" THEN "REVIEW_EMAILS"
                   ELSE appState]_vars

\* the part of C32 that the code keeps: from PROCESSING_RECOVERY the delayed
\* transition leads to REVIEW_EMAILS
C32_TimerEndsProcessing ==
  [][TimerFired /\ appState = "PROCESSING_RECOVERY" => appState' = "REVIEW_EMAILS"]_vars

RejectedWith(resp) == authPromise = <<"pending">> /\ authPromise' = <<"rejected", resp>>
HoldsError(item) == item # <<>> /\ item[1].error # ""

\* C33: in the step in which handleAuthClick rejects with an error response,
\* that response is neither the API client's token nor the stored item
\* afterwards, and the promise has not resolved.
C33_ErrorResponseNotInstalled ==
  [][\A resp \in ErrorResponses :
       RejectedWith(resp) => ~HoldsError(gapiToken') /\ ~HoldsError(localStorage')]_vars

\* the part of C33 that the code keeps: an error response delivered to the
\* callback leaves the promise rejected with that response, not resolved
C33_ErrorResponseRejects ==
  [][tokenRequested /\ ~tokenRequested' /\ HoldsError(gapiToken')
       => authPromise' = <<"rejected", gapiToken'[1]>>]_vars

====
